---- MODULE Spec2Model ----
(***************************************************************************)
(* Model of the echoapp backend's hex-window analyzers:                    *)
(*   analyses_trains.py   TrainAnalysisH3  (stations)                      *)
(*   analyses_pois_h3.py  POIsAnalysisH3   (points of interest)            *)
(*   app.py               route handlers and the per-kind singletons       *)
(*                                                                         *)
(* Geometry is modelled on the hexagonal grid in axial coordinates: a cell *)
(* is <<q, r>>, a point geometry is the set of cells whose closed hexagon  *)
(* contains the point (one cell for an interior point, two on an edge,     *)
(* three on a vertex, none for an empty geometry), and a mask polygon is   *)
(* the set of cells whose hexagons were unioned into it.                   *)
(***************************************************************************)
EXTENDS Integers, Sequences, FiniteSets, TLC

VARIABLES
    master,   \* state of data_master/master.gpkg (0 = missing, else a version)
    gdf,      \* gdf[a]: the analyzer's self._gdf (Optional)
    sindex,   \* sindex[a]: the analyzer's self._sindex (Optional)
    pc,       \* pc[t]: position of worker thread t inside run()/_load()
    args,     \* args[t]: arguments of the run() call thread t is serving
    local,    \* local[t]: local variables of the call (frames read, idx, mask)
    ret,      \* outcome of the run() call that completed last
    call,     \* last direct call of a query function (QuerySpec)
    fs        \* storage_sync: local files, remote objects, position of sync()

vars == <<master, gdf, sindex, pc, args, local, ret, call, fs>>

----------------------------------------------------------------------------
(* Bounds *)
NThreads == 2
MaxK == 3
MaxCap == 2

Threads == 1..NThreads
Kinds == {"trains", "pois"}

(* Optional[...] values: None is <<>>, a present value x is <<x>>. *)
None == <<>>
Some(x) == <<x>>
Val(o) == o[1]

Max2(a, b) == IF a >= b THEN a ELSE b
Min2(a, b) == IF a <= b THEN a ELSE b
Abs(x) == IF x < 0 THEN -x ELSE x

----------------------------------------------------------------------------
(* H3 helpers *)

\* h3 supports resolutions 0..15
MaxH3Res == 15
ValidRes == 0..MaxH3Res

\* _geo_to_cell: the cell holding (lat, lon); h3 raises on a resolution it
\* does not support (ResOK is the guard of that raise)
ResOK(res) == res \in ValidRes
_geo_to_cell(lat, lon, res) == <<lon, lat>>

\* grid distance between two cells (axial coordinates)
GridDistance(a, b) ==
    LET dq == a[1] - b[1]
        dr == a[2] - b[2]
    IN (Abs(dq) + Abs(dr) + Abs(dq + dr)) \div 2

\* _disk: the k-ring including the center
_disk(cell, k) ==
    {c \in ((cell[1] - k)..(cell[1] + k)) \X ((cell[2] - k)..(cell[2] + k)) :
        GridDistance(cell, c) <= k}

\* the body of the loop of _disk_and_rings for distance d
Ring_NoDifference(center_cell, d) == _disk(center_cell, d)
Ring(center_cell, d) ==
    IF d = 0 THEN {center_cell}
    ELSE _disk(center_cell, d) \ _disk(center_cell, d - 1)

\* _disk_and_rings: (center_cell, disk_cells, rings[0..k]); rings[d] of the
\* code is rings[d + 1] here
_disk_and_rings(center_lon, center_lat, res, k) ==
    LET center_cell == _geo_to_cell(center_lat, center_lon, res)
    IN [center_cell |-> center_cell,
        disk_cells  |-> _disk(center_cell, k),
        rings       |-> [i \in 1..(k + 1) |-> Ring(center_cell, i - 1)]]

\* unary_union of the hexagon polygons of several cell sets
UnionOf(polys, n) == UNION {polys[i] : i \in 1..Min2(n, Len(polys))}

\* geometry.intersects(mask_geom)
Intersects(geometry, mask_geom) == geometry \cap mask_geom # {}

\* mask_geom.bounds: the bounding box of the mask; a geometry's box overlaps
\* it when one of its cells lies inside the box
InBounds(geometry, mask_geom) ==
    /\ mask_geom # {}
    /\ LET qs == {c[1] : c \in mask_geom}
           rs == {c[2] : c \in mask_geom}
           minq == CHOOSE x \in qs : \A y \in qs : x <= y
           maxq == CHOOSE x \in qs : \A y \in qs : x >= y
           minr == CHOOSE x \in rs : \A y \in rs : x <= y
           maxr == CHOOSE x \in rs : \A y \in rs : x >= y
       IN \E c \in geometry : /\ minq <= c[1] /\ c[1] <= maxq
                              /\ minr <= c[2] /\ c[2] <= maxr

----------------------------------------------------------------------------
(* The base-layer source: contents of master.gpkg per version *)

PtCenter == {<<0, 0>>}
PtEdge01 == {<<0, 0>>, <<1, 0>>}
PtRing1  == {<<1, 0>>}
PtRing2  == {<<2, 0>>}
PtVert12 == {<<1, 0>>, <<2, 0>>, <<1, 1>>}
PtEmpty  == {}

Row(ufi, ftype, name, geometry) ==
    [UFI |-> ufi, FTYPE |-> ftype, NAME |-> name, geometry |-> geometry]

\* master.gpkg is missing (0) or present (1)
MasterVersions == 0..1

\* the layers of the file
Layers(v) ==
    IF v = 1 THEN
        [metro_stations    |-> Some(<<Row(1, "metro", "m1", PtCenter),
                                      Row(2, "metro", "m2", PtEmpty),
                                      Row(3, "metro", "m3", PtEdge01)>>),
         regional_stations |-> Some(<<Row(4, "regional", "r1", PtRing2),
                                      Row(5, "regional", "r2", PtVert12)>>),
         pois              |-> Some(<<Row(11, "cafe", "c1", PtCenter),
                                      Row(12, "school", "s1", PtEmpty),
                                      Row(13, "school", "s2", PtRing1),
                                      Row(14, "cafe", "c2", PtRing2),
                                      Row(15, "park", "p1", PtEdge01)>>)]
    ELSE
        [metro_stations |-> None, regional_stations |-> None, pois |-> None]

\* gpd.read_file(MASTER, layer=...): None stands for the raised exception
read_file(v, layer) == Layers(v)[layer]

\* frame.loc[~frame.geometry.is_empty]
DropEmpty(frame) == SelectSeq(frame, LAMBDA r : r.geometry # {})

\* frame.sindex: the entries of the spatial index in the order the tree
\* yields them. The order is fixed by the data; it need not be the row
\* order, and the model takes the rows last to first
SIndex(frame) ==
    LET n == Len(frame)
    IN [i \in 1..n |-> [row |-> n + 1 - i,
                        geometry |-> frame[n + 1 - i].geometry]]

----------------------------------------------------------------------------
(* Parameter normalisation shared by the analyzers *)

\* max(0, min(x, k))
Clamp(x, k) == Max2(0, Min2(x, k))

\* seq[:n] of Python: a negative n counts from the end
PySliceTo_Tail(seq, n) ==
    IF n >= 0 THEN SubSeq(seq, Len(seq) - Min2(n, Len(seq)) + 1, Len(seq))
    ELSE SubSeq(seq, 1, Max2(Len(seq) + n, 0))
PySliceTo(seq, n) ==
    IF n >= 0 THEN SubSeq(seq, 1, Min2(n, Len(seq)))
    ELSE SubSeq(seq, 1, Max2(Len(seq) + n, 0))

Failure(exc) == [status |-> exc, envelope |-> None]
Success(env) == [status |-> "ok", envelope |-> Some(env)]

----------------------------------------------------------------------------
(* TrainAnalysisH3 *)

\* _load, after both layers were read: concatenate and drop the empties
TrainsFrame(metro, regional) == DropEmpty(metro \o regional)

\* bi of run
TrainsBi(a) == Clamp(a.band_index, a.k)

\* dk of run (disk mode)
TrainsDk(a) ==
    IF a.disk_k = None THEN TrainsBi(a) ELSE Clamp(Val(a.disk_k), a.k)

\* "Choose mask geometry"
TrainsMask_DiskShort(ring_polys, a) ==
    IF a.select_mode = "disk"
    THEN UnionOf(ring_polys, TrainsDk(a))
    ELSE ring_polys[TrainsBi(a) + 1]
TrainsMask_BandCumulative(ring_polys, a) ==
    UnionOf(ring_polys, (IF a.select_mode = "disk" THEN TrainsDk(a) ELSE TrainsBi(a)) + 1)
TrainsMask(ring_polys, a) ==
    IF a.select_mode = "disk"
    THEN UnionOf(ring_polys, TrainsDk(a) + 1)
    ELSE ring_polys[TrainsBi(a) + 1]

\* one output feature of the stations analyzer: every non-geometry column
TrainsFeature(row) ==
    [coordinates |-> row.geometry,
     properties  |-> [UFI |-> row.UFI, FTYPE |-> row.FTYPE, NAME |-> row.NAME]]

\* run, after _load returned, on the frame self._gdf holds
TrainsRunBody(frame, a) ==
    IF ~ResOK(a.res) THEN Failure("H3ResDomainError")
    ELSE
    LET dr         == _disk_and_rings(a.center_lon, a.center_lat, a.res, a.k)
        ring_polys == dr.rings
        mask_geom  == TrainsMask(ring_polys, a)
        candidates == SelectSeq(frame, LAMBDA r : Intersects(r.geometry, mask_geom))
        kept       == SelectSeq(candidates, LAMBDA r : r.geometry # {})
        feats      == [i \in 1..Len(kept) |-> TrainsFeature(kept[i])]
    IN Success([features |-> feats,
                mask     |-> mask_geom,
                summary  |-> [count         |-> Len(feats),
                              select_mode   |-> a.select_mode,
                              ring_selected |-> TrainsBi(a),
                              res           |-> a.res,
                              k             |-> a.k]])

----------------------------------------------------------------------------
(* POIsAnalysisH3 *)

\* gdf[keep].copy() with keep = FTYPE, UFI, geometry
KeepColumns(frame) ==
    [i \in 1..Len(frame) |->
        [UFI |-> frame[i].UFI, FTYPE |-> frame[i].FTYPE,
         geometry |-> frame[i].geometry]]

\* dk of run
DefaultDiskK == 3
POIsDk(a) == IF a.disk_k = None THEN DefaultDiskK ELSE Clamp(Val(a.disk_k), a.k)

\* _disk_polygon_metric: the union of the hexagons of the dk-disk
_disk_polygon_metric(center_lon, center_lat, res, dk) ==
    _disk(_geo_to_cell(center_lat, center_lon, res), dk)

\* "if include_ftypes:" -- None and the empty list are both falsy
Truthy(include_ftypes) ==
    include_ftypes # None /\ Val(include_ftypes) # {}

\* cand[cand["FTYPE"].isin(include_ftypes)] under "if include_ftypes:"
FilterFtypes(cand, include_ftypes) ==
    IF Truthy(include_ftypes)
    THEN SelectSeq(cand, LAMBDA r : r.FTYPE \in Val(include_ftypes))
    ELSE cand

\* the result cap
CapPoints(cand, max_points) ==
    IF Len(cand) > max_points THEN PySliceTo(cand, max_points) ELSE cand

POIsFeature(row) ==
    [coordinates |-> row.geometry,
     properties  |-> [FTYPE |-> row.FTYPE, UFI |-> row.UFI]]

\* run, from the return of _load to idx: the mask and the index lookup
POIsQuery(si, a) ==
    IF ~ResOK(a.res) THEN [status |-> "H3ResDomainError"]
    ELSE IF si = None THEN [status |-> "AttributeError"]
    ELSE
    LET dk        == POIsDk(a)
        mask_geom == _disk_polygon_metric(a.center_lon, a.center_lat, a.res, dk)
        hits      == SelectSeq(Val(si), LAMBDA e : InBounds(e.geometry, mask_geom))
    IN [status |-> "ok", dk |-> dk, mask_geom |-> mask_geom,
        idx |-> [i \in 1..Len(hits) |-> hits[i].row]]

\* run, from self._gdf.iloc[idx] to the returned envelope
POIsFetch(frame, q, a) ==
    IF \E i \in 1..Len(q.idx) : q.idx[i] > Len(frame) THEN Failure("IndexError")
    ELSE
    LET cand0 == [i \in 1..Len(q.idx) |-> frame[q.idx[i]]]
        cand1 == SelectSeq(cand0, LAMBDA r : Intersects(r.geometry, q.mask_geom))
        cand2 == FilterFtypes(cand1, a.include_ftypes)
        cand3 == CapPoints(cand2, a.max_points)
        kept  == SelectSeq(cand3, LAMBDA r : r.geometry # {})
        feats == [i \in 1..Len(kept) |-> POIsFeature(kept[i])]
    IN Success([features |-> feats,
                mask     |-> q.mask_geom,
                summary  |-> [count   |-> Len(feats),
                              res     |-> a.res,
                              disk_k  |-> q.dk,
                              k_built |-> a.k,
                              filtered_types |->
                                  IF Truthy(a.include_ftypes)
                                  THEN Val(a.include_ftypes) ELSE {}]])

\* run after _load, on a store that does not change during the call
POIsRunBody(frame, si, a) ==
    LET q == POIsQuery(si, a)
    IN IF q.status # "ok" THEN Failure(q.status) ELSE POIsFetch(frame, q, a)

----------------------------------------------------------------------------
(* app.py: request models and route handlers *)

DefaultRes == 8
DefaultK == 4
DefaultBandIndex == 2
DefaultMaxPoints == 4000

\* resolutions a request carries here: the default and one h3 rejects
ReqRes == {DefaultRes, MaxH3Res + 1}

\* TrainsReq / POIsReq bodies served by the worker threads
TrainsReqs ==
    [center_lat : {0}, center_lon : {0}, res : ReqRes, k : {DefaultK},
     band_index : {DefaultBandIndex}]
POIsReqs ==
    [center_lat : {0}, center_lon : {0}, res : {DefaultRes}, k : {DefaultK},
     disk_k : {None}, include_ftypes : {None}]

\* analyze_trains_h3: the arguments it passes to _h3_trains.run
analyze_trains_h3(req) ==
    [center_lon |-> req.center_lon, center_lat |-> req.center_lat,
     res |-> req.res, k |-> req.k, band_index |-> req.band_index,
     select_mode |-> "disk", disk_k |-> None]

\* analyze_pois_h3: the arguments it passes to get_pois().run
analyze_pois_h3(req) ==
    LET k == IF req.disk_k = None THEN req.k ELSE Val(req.disk_k)
    IN [center_lon |-> req.center_lon, center_lat |-> req.center_lat,
        res |-> req.res, k |-> DefaultK, disk_k |-> Some(k),
        include_ftypes |-> req.include_ftypes, max_points |-> DefaultMaxPoints]

----------------------------------------------------------------------------
(* The process: worker threads serving requests on the shared analyzers *)

NoRet == [kind |-> "none", res |-> DefaultRes, status |-> "none", envelope |-> None]
NoSync == [pc |-> "off"]
NoCall == [fn |-> "none", args |-> None, status |-> "none", out |-> None]

Init ==
    /\ master \in MasterVersions
    /\ gdf = [a \in Kinds |-> None]
    /\ sindex = [a \in Kinds |-> None]
    /\ pc = [t \in Threads |-> "idle"]
    /\ args = [t \in Threads |-> None]
    /\ local = [t \in Threads |-> None]
    /\ ret = NoRet
    /\ call = NoCall
    /\ fs = NoSync

\* the call of thread t ends: with an envelope, or with the exception the
\* route handler turns into an error response
Finish(t, kind, outcome) ==
    /\ ret' = [kind |-> kind, res |-> args[t].res,
               status |-> outcome.status, envelope |-> outcome.envelope]
    /\ pc' = [pc EXCEPT ![t] = "idle"]
    /\ args' = [args EXCEPT ![t] = None]
    /\ local' = [local EXCEPT ![t] = None]

Goto(t, label) == pc' = [pc EXCEPT ![t] = label]

\* the base-layer file is replaced, created or removed outside the analyzers
SourceChange ==
    /\ \E v \in MasterVersions \ {master} : master' = v
    /\ UNCHANGED <<gdf, sindex, pc, args, local, ret, call, fs>>

\* a request reaches a route handler, which calls run(); the server hands
\* the request to the first free worker
FirstFree(t) == pc[t] = "idle" /\ \A u \in Threads : u < t => pc[u] # "idle"

StartTrains(t) ==
    /\ FirstFree(t)
    /\ \E req \in TrainsReqs : args' = [args EXCEPT ![t] = analyze_trains_h3(req)]
    /\ Goto(t, "t_load")
    /\ UNCHANGED <<master, gdf, sindex, local, ret, call, fs>>

StartPOIs(t) ==
    /\ FirstFree(t)
    /\ \E req \in POIsReqs : args' = [args EXCEPT ![t] = analyze_pois_h3(req)]
    /\ Goto(t, "p_load")
    /\ UNCHANGED <<master, gdf, sindex, local, ret, call, fs>>

(* TrainAnalysisH3._load and run, statement by statement *)

\* if self._gdf is not None: return
TLoad(t) ==
    /\ pc[t] = "t_load"
    /\ IF gdf["trains"] # None THEN Goto(t, "t_run") ELSE Goto(t, "t_read_metro")
    /\ UNCHANGED <<master, gdf, sindex, args, local, ret, call, fs>>

\* metro = gpd.read_file(MASTER, layer="metro_stations")
TReadMetro_CachesFailure(t) ==
    /\ pc[t] = "t_read_metro"
    /\ LET f == read_file(master, "metro_stations")
       IN IF f = None
          THEN /\ Finish(t, "trains", Failure("RuntimeError"))
               /\ gdf' = [gdf EXCEPT !["trains"] = Some(<<>>)]
               /\ UNCHANGED sindex
          ELSE /\ local' = [local EXCEPT ![t] = [metro |-> Val(f)]]
               /\ Goto(t, "t_read_regional")
               /\ UNCHANGED <<gdf, sindex, args, ret>>
    /\ UNCHANGED <<master, call, fs>>
TReadMetro(t) ==
    /\ pc[t] = "t_read_metro"
    /\ LET f == read_file(master, "metro_stations")
       IN IF f = None
          THEN /\ Finish(t, "trains", Failure("RuntimeError"))
               /\ UNCHANGED <<gdf, sindex>>
          ELSE /\ local' = [local EXCEPT ![t] = [metro |-> Val(f)]]
               /\ Goto(t, "t_read_regional")
               /\ UNCHANGED <<gdf, sindex, args, ret>>
    /\ UNCHANGED <<master, call, fs>>

\* regional = gpd.read_file(MASTER, layer="regional_stations")
TReadRegional(t) ==
    /\ pc[t] = "t_read_regional"
    /\ LET f == read_file(master, "regional_stations")
       IN IF f = None
          THEN /\ Finish(t, "trains", Failure("RuntimeError"))
               /\ UNCHANGED <<gdf, sindex>>
          ELSE /\ local' = [local EXCEPT ![t] =
                               [metro |-> local[t].metro, regional |-> Val(f)]]
               /\ Goto(t, "t_set_gdf")
               /\ UNCHANGED <<gdf, sindex, args, ret>>
    /\ UNCHANGED <<master, call, fs>>

\* reproject, concatenate, drop empties; self._gdf = all_stations
TSetGdf(t) ==
    /\ pc[t] = "t_set_gdf"
    /\ gdf' = [gdf EXCEPT !["trains"] =
                  Some(TrainsFrame(local[t].metro, local[t].regional))]
    /\ local' = [local EXCEPT ![t] = None]
    /\ Goto(t, "t_set_sindex")
    /\ UNCHANGED <<master, sindex, args, ret, call, fs>>

\* self._sindex = self._gdf.sindex
TSetSindex(t) ==
    /\ pc[t] = "t_set_sindex"
    /\ sindex' = [sindex EXCEPT !["trains"] = Some(SIndex(Val(gdf["trains"])))]
    /\ Goto(t, "t_run")
    /\ UNCHANGED <<master, gdf, args, local, ret, call, fs>>

\* the rest of run
TRun(t) ==
    /\ pc[t] = "t_run"
    /\ Finish(t, "trains", TrainsRunBody(Val(gdf["trains"]), args[t]))
    /\ UNCHANGED <<master, gdf, sindex, call, fs>>

(* POIsAnalysisH3._load and run, statement by statement *)

\* if self._gdf is not None: return
PLoad(t) ==
    /\ pc[t] = "p_load"
    /\ IF gdf["pois"] # None THEN Goto(t, "p_query") ELSE Goto(t, "p_read")
    /\ UNCHANGED <<master, gdf, sindex, args, local, ret, call, fs>>

\* gdf = gpd.read_file(MASTER, layer="pois")
PRead(t) ==
    /\ pc[t] = "p_read"
    /\ LET f == read_file(master, "pois")
       IN IF f = None
          THEN /\ Finish(t, "pois", Failure("RuntimeError"))
               /\ UNCHANGED <<gdf, sindex>>
          ELSE /\ local' = [local EXCEPT ![t] = [gdf |-> Val(f)]]
               /\ Goto(t, "p_set_gdf")
               /\ UNCHANGED <<gdf, sindex, args, ret>>
    /\ UNCHANGED <<master, call, fs>>

\* self._gdf = gdf[keep].copy()
PSetGdf(t) ==
    /\ pc[t] = "p_set_gdf"
    /\ gdf' = [gdf EXCEPT !["pois"] = Some(KeepColumns(local[t].gdf))]
    /\ local' = [local EXCEPT ![t] = None]
    /\ Goto(t, "p_drop_empty")
    /\ UNCHANGED <<master, sindex, args, ret, call, fs>>

\* self._gdf = self._gdf.loc[~self._gdf.geometry.is_empty]
PDropEmpty(t) ==
    /\ pc[t] = "p_drop_empty"
    /\ gdf' = [gdf EXCEPT !["pois"] = Some(DropEmpty(Val(gdf["pois"])))]
    /\ Goto(t, "p_set_sindex")
    /\ UNCHANGED <<master, sindex, args, local, ret, call, fs>>

\* self._sindex = self._gdf.sindex
PSetSindex(t) ==
    /\ pc[t] = "p_set_sindex"
    /\ sindex' = [sindex EXCEPT !["pois"] = Some(SIndex(Val(gdf["pois"])))]
    /\ Goto(t, "p_query")
    /\ UNCHANGED <<master, gdf, args, local, ret, call, fs>>

\* dk, mask_geom, idx = list(self._sindex.intersection(bounds))
PQuery(t) ==
    /\ pc[t] = "p_query"
    /\ LET q == POIsQuery(sindex["pois"], args[t])
       IN IF q.status # "ok"
          THEN Finish(t, "pois", Failure(q.status))
          ELSE /\ local' = [local EXCEPT ![t] = q]
               /\ Goto(t, "p_fetch")
               /\ UNCHANGED <<args, ret>>
    /\ UNCHANGED <<master, gdf, sindex, call, fs>>

\* cand = self._gdf.iloc[idx] and the rest of run
PFetch(t) ==
    /\ pc[t] = "p_fetch"
    /\ Finish(t, "pois", POIsFetch(Val(gdf["pois"]), local[t], args[t]))
    /\ UNCHANGED <<master, gdf, sindex, call, fs>>

Next ==
    \/ SourceChange
    \/ \E t \in Threads : StartTrains(t)
    \/ \E t \in Threads : StartPOIs(t)
    \/ \E t \in Threads : TLoad(t)
    \/ \E t \in Threads : TReadMetro(t)
    \/ \E t \in Threads : TReadRegional(t)
    \/ \E t \in Threads : TSetGdf(t)
    \/ \E t \in Threads : TSetSindex(t)
    \/ \E t \in Threads : TRun(t)
    \/ \E t \in Threads : PLoad(t)
    \/ \E t \in Threads : PRead(t)
    \/ \E t \in Threads : PSetGdf(t)
    \/ \E t \in Threads : PDropEmpty(t)
    \/ \E t \in Threads : PSetSindex(t)
    \/ \E t \in Threads : PQuery(t)
    \/ \E t \in Threads : PFetch(t)

Spec == Init /\ [][Next]_vars

----------------------------------------------------------------------------
(* Direct calls of the query functions on a loaded store *)

\* the stores _load leaves behind once the file is present
LoadedTrainsFrame ==
    TrainsFrame(Val(read_file(1, "metro_stations")),
                Val(read_file(1, "regional_stations")))
LoadedPOIsFrame == DropEmpty(KeepColumns(Val(read_file(1, "pois"))))

\* argument ranges of the calls: k >= 0 as the request contract has it, the
\* band index, the depth override and the cap any integer, the override and
\* the allow-list possibly absent
QLons == 0..1
QLats == {0}
QRes == {DefaultRes, MaxH3Res + 1}
QKs == 0..MaxK
QInts == -1..(MaxK + 1)
QOptInts == {None} \cup {Some(n) : n \in QInts}
QFtypes == {None, Some({}), Some({"cafe"}), Some({"cafe", "park"})}
QCaps == (-1..MaxCap) \cup {DefaultMaxPoints}

TrainsArgs ==
    [center_lon : QLons, center_lat : QLats, res : QRes, k : QKs,
     band_index : QInts, select_mode : {"disk", "band"}, disk_k : QOptInts]
POIsArgs ==
    [center_lon : QLons, center_lat : QLats, res : QRes, k : QKs,
     disk_k : QOptInts, include_ftypes : QFtypes, max_points : QCaps]

CallDiskAndRings ==
    /\ call = NoCall
    /\ \E lon \in QLons, lat \in QLats, res \in QRes, k \in QKs :
         call' = [fn |-> "_disk_and_rings",
                  args |-> [center_lon |-> lon, center_lat |-> lat,
                            res |-> res, k |-> k],
                  status |-> IF ResOK(res) THEN "ok" ELSE "H3ResDomainError",
                  out |-> IF ResOK(res) THEN Some(_disk_and_rings(lon, lat, res, k))
                          ELSE None]
    /\ UNCHANGED <<master, gdf, sindex, pc, args, local, ret, fs>>

CallTrainsRun ==
    /\ call = NoCall
    /\ \E a \in TrainsArgs :
         LET r == TrainsRunBody(LoadedTrainsFrame, a)
         IN call' = [fn |-> "trains_run", args |-> a,
                     status |-> r.status, out |-> r.envelope]
    /\ UNCHANGED <<master, gdf, sindex, pc, args, local, ret, fs>>

CallPOIsRun ==
    /\ call = NoCall
    /\ \E a \in POIsArgs :
         LET r == POIsRunBody(LoadedPOIsFrame, Some(SIndex(LoadedPOIsFrame)), a)
         IN call' = [fn |-> "pois_run", args |-> a,
                     status |-> r.status, out |-> r.envelope]
    /\ UNCHANGED <<master, gdf, sindex, pc, args, local, ret, fs>>

\* the caller drops the returned value before it calls again
CallReturn ==
    /\ call # NoCall
    /\ call' = NoCall
    /\ UNCHANGED <<master, gdf, sindex, pc, args, local, ret, fs>>

QueryNext == CallDiskAndRings \/ CallTrainsRun \/ CallPOIsRun \/ CallReturn

QuerySpec == Init /\ [][QueryNext]_vars

----------------------------------------------------------------------------
(* Properties *)

KindOf(label) ==
    IF label \in {"t_load", "t_read_metro", "t_read_regional", "t_set_gdf",
                  "t_set_sindex", "t_run"} THEN "trains"
    ELSE IF label = "idle" THEN "none" ELSE "pois"

\* the statements of _load after the "is not None" test
LoadSection == {"t_read_metro", "t_read_regional", "t_set_gdf", "t_set_sindex",
                "p_read", "p_set_gdf", "p_drop_empty", "p_set_sindex"}
Loading(a) == {t \in Threads : pc[t] \in LoadSection /\ KindOf(pc[t]) = a}

\* C1: of the run() calls executing concurrently on one analyzer, at most
\* one is inside the full load (past the test of _gdf, reading the source
\* and filling the store) at any time
C1_SingleFlightLoad == \A a \in Kinds : Cardinality(Loading(a)) <= 1

\* the layer a thread at a read statement is about to read
LayerAt(label) ==
    IF label = "t_read_metro" THEN "metro_stations"
    ELSE IF label = "t_read_regional" THEN "regional_stations" ELSE "pois"
ReadLabels == {"t_read_metro", "t_read_regional", "p_read"}
AfterRead(label) ==
    IF label = "t_read_metro" THEN "t_read_regional"
    ELSE IF label = "t_read_regional" THEN "t_set_gdf" ELSE "p_set_gdf"

C2_Step(t) ==
    /\ (/\ pc[t] \in ReadLabels /\ pc'[t] # pc[t]
        /\ read_file(master, LayerAt(pc[t])) = None)
       => /\ gdf' = gdf /\ sindex' = sindex
          /\ pc'[t] = "idle"
          /\ ret'.kind = KindOf(pc[t])
          /\ ret'.status = "RuntimeError" /\ ret'.envelope = None
    /\ (/\ pc[t] \in ReadLabels /\ pc'[t] # pc[t]
        /\ read_file(master, LayerAt(pc[t])) # None)
       => pc'[t] = AfterRead(pc[t]) /\ ret' = ret
    /\ (pc[t] = "t_load" /\ pc'[t] # pc[t] /\ gdf["trains"] = None)
       => pc'[t] = "t_read_metro"
    /\ (pc[t] = "p_load" /\ pc'[t] # pc[t] /\ gdf["pois"] = None)
       => pc'[t] = "p_read"
    /\ (pc[t] \in {"t_set_gdf", "p_set_gdf"} /\ pc'[t] # pc[t])
       => gdf'[KindOf(pc[t])] # None

\* C2: a failed read of the source leaves _gdf and _sindex as they were
\* and ends run() with RuntimeError and no envelope; nothing remembers the
\* failure: every run() that finds the store unset goes on to read the
\* source again, fails the same way while the layer is unreadable, and
\* proceeds to fill the store once it is readable
C2_LoadFailureNotCached == [][\A t \in Threads : C2_Step(t)]_vars

\* a stations call failed on the load, the store is still unset, the file
\* has appeared since and a later call is reading it again
C2_Witness ==
    /\ ret.kind = "trains" /\ ret.status = "RuntimeError" /\ ret.envelope = None
    /\ gdf["trains"] = None /\ sindex["trains"] = None
    /\ master = 1
    /\ \E t \in Threads : pc[t] = "t_read_regional"

Populated(a) == gdf[a] # None /\ sindex[a] # None

\* C3: once the store of an analyzer kind is populated (records and spatial
\* index set), no later step changes the records or the index
C3_PopulatedOnce ==
    [][\A a \in Kinds : Populated(a) => gdf'[a] = gdf[a] /\ sindex'[a] = sindex[a]]_vars

\* C10: a run() call with a resolution h3 does not support ends with the
\* invalid-parameter error of h3 and no envelope, whatever the state of the
\* store
C10_InvalidResolutionRaises ==
    (ret.kind # "none" /\ ~ResOK(ret.res))
        => ret.status = "H3ResDomainError" /\ ret.envelope = None

----------------------------------------------------------------------------
(* Properties of the query functions *)

UnionTo(rings, n) == UNION {rings[i] : i \in 1..n}

\* C4: _disk_and_rings returns k+1 rings, rings[0] = {center}, pairwise
\* disjoint, the union of rings[0..d] is the d-disk for every d in 0..k and
\* the union of all rings is disk_cells
C4_RingPartition ==
    (call.fn = "_disk_and_rings" /\ call.status = "ok") =>
        LET k == call.args.k
            rings == Val(call.out).rings
            center == Val(call.out).center_cell
        IN /\ Len(rings) = k + 1
           /\ rings[1] = {center}
           /\ \A i, j \in 1..(k + 1) : i # j => rings[i] \cap rings[j] = {}
           /\ \A d \in 0..k : UnionTo(rings, d + 1) = _disk(center, d)
           /\ UnionTo(rings, k + 1) = Val(call.out).disk_cells

C4_Witness ==
    /\ call.fn = "_disk_and_rings" /\ call.status = "ok"
    /\ call.args.k = 2
    /\ Cardinality(Val(call.out).rings[3]) = 12
    /\ Cardinality(Val(call.out).disk_cells) = 19

\* the depth a disk-mode call asks for: disk_k, or band_index without it
DepthAsked(a) == IF a.disk_k # None THEN Val(a.disk_k) ELSE a.band_index

BandCall(a, i) ==
    TrainsRunBody(LoadedTrainsFrame,
                  [a EXCEPT !.select_mode = "band", !.band_index = i])

\* C5: the mask of a disk-mode stations call of depth d in 0..k covers the
\* cells of the band-mode masks of indices 0..d for the same center,
\* resolution and k, and no others
C5_BandDiskEquivalence ==
    (/\ call.fn = "trains_run" /\ call.status = "ok"
     /\ call.args.select_mode = "disk"
     /\ DepthAsked(call.args) \in 0..call.args.k) =>
        Val(call.out).mask =
            UNION {Val(BandCall(call.args, i).envelope).mask :
                       i \in 0..DepthAsked(call.args)}

C5_Witness ==
    /\ call.fn = "trains_run" /\ call.status = "ok"
    /\ call.args.select_mode = "disk"
    /\ call.args.k = 3 /\ call.args.disk_k = Some(2)
    /\ Cardinality(Val(call.out).mask) = 19

\* C6: the disk depth and the band index run() builds the mask with lie in
\* [0, k], for any k and any override, given or not
C6_EffectiveDepthInRange ==
    /\ (call.fn = "pois_run" /\ call.status = "ok") =>
           Val(call.out).summary.disk_k \in 0..call.args.k
    /\ (call.fn = "trains_run" /\ call.status = "ok") =>
           /\ Val(call.out).summary.ring_selected \in 0..call.args.k
           /\ TrainsDk(call.args) \in 0..call.args.k

\* the features the mask and the cap select, with no attribute filter
MaskedAndCapped(a, mask_geom) ==
    LET si    == SIndex(LoadedPOIsFrame)
        rows  == [i \in 1..Len(si) |-> LoadedPOIsFrame[si[i].row]]
        sel   == SelectSeq(rows, LAMBDA r : Intersects(r.geometry, mask_geom))
        n     == IF a.max_points >= 0 THEN Min2(a.max_points, Len(sel))
                 ELSE Max2(Len(sel) + a.max_points, 0)
    IN [i \in 1..n |-> POIsFeature(sel[i])]

\* C7: with an allow-list given (the empty list included) every returned
\* feature's FTYPE is in the list; with none given the features are those
\* the mask and the cap select
C7_AttributeFilter ==
    (call.fn = "pois_run" /\ call.status = "ok") =>
        LET a == call.args
            env == Val(call.out)
        IN /\ a.include_ftypes # None =>
                  \A i \in 1..Len(env.features) :
                      env.features[i].properties.FTYPE \in Val(a.include_ftypes)
           /\ a.include_ftypes = None =>
                  env.features = MaskedAndCapped(a, env.mask)

IsPrefix(s, t) == Len(s) <= Len(t) /\ \A i \in 1..Len(s) : s[i] = t[i]

\* the features of the same call without an effective cap
Uncapped(a) ==
    Val(POIsRunBody(LoadedPOIsFrame, Some(SIndex(LoadedPOIsFrame)),
                    [a EXCEPT !.max_points = Len(LoadedPOIsFrame)]).envelope).features

\* C8 (as stated): the capped feature list is a prefix of the uncapped one
\* and has at most max_points features
C8_CapIsPrefix_Original ==
    (call.fn = "pois_run" /\ call.status = "ok") =>
        /\ IsPrefix(Val(call.out).features, Uncapped(call.args))
        /\ Len(Val(call.out).features) <= call.args.max_points

\* C8 (amended): the capped feature list is a prefix of the uncapped one,
\* same records in the same order, and has at most max_points features
\* whenever max_points >= 0
C8_CapIsPrefix ==
    (call.fn = "pois_run" /\ call.status = "ok") =>
        /\ IsPrefix(Val(call.out).features, Uncapped(call.args))
        /\ call.args.max_points >= 0 =>
               Len(Val(call.out).features) <= call.args.max_points

C8_Witness ==
    /\ call.fn = "pois_run" /\ call.status = "ok"
    /\ call.args.max_points = 2
    /\ Len(Uncapped(call.args)) > 2
    /\ Len(Val(call.out).features) = 2

Records(env) == {env.features[i].properties.UFI : i \in 1..Len(env.features)}

\* C9 (as stated): in band mode, the records of band index 2 and those of
\* band index 0 for the same center, resolution and k are disjoint
C9_Band2Band0Disjoint_Original ==
    (/\ call.fn = "trains_run" /\ call.status = "ok"
     /\ call.args.select_mode = "band" /\ call.args.band_index = 2) =>
        Records(Val(call.out))
            \cap Records(Val(BandCall(call.args, 0).envelope)) = {}

\* C9 (amended): in band mode with k >= 2, the records of band index 2 and
\* those of band index 0 for the same center, resolution and k are disjoint
C9_Band2Band0Disjoint ==
    (/\ call.fn = "trains_run" /\ call.status = "ok"
     /\ call.args.select_mode = "band" /\ call.args.band_index = 2
     /\ call.args.k >= 2) =>
        Records(Val(call.out))
            \cap Records(Val(BandCall(call.args, 0).envelope)) = {}

C9_Witness ==
    /\ call.fn = "trains_run" /\ call.status = "ok"
    /\ call.args.select_mode = "band" /\ call.args.band_index = 2
    /\ call.args.k >= 2
    /\ Records(Val(call.out)) # {}
    /\ Records(Val(BandCall(call.args, 0).envelope)) # {}

----------------------------------------------------------------------------
(* storage_sync.py: bringing the local data directory up to date *)

\* largest object size
MaxSize == 1

Sizes == 0..MaxSize
OptSizes == {None} \cup {Some(n) : n \in Sizes}

\* the files sync() deals with: LOCAL_GPKG, a parquet object and an object
\* of another type under CENSUS_PREFIX
Gpkg == "master.gpkg"
Parquet == "a.parquet"
Other == "notes.txt"
SyncFiles == {Gpkg, Parquet, Other}

\* name.endswith(".parquet")
EndsWithParquet(name) == name = Parquet

\* a listing entry leaves out "metadata.size" or "size" or carries the
\* size of the object; {} (no entry) carries neither
EmptyInfo == [metadata_size |-> None, size |-> None]
InfosOf(remote) ==
    IF remote = None THEN {EmptyInfo}
    ELSE [metadata_size : {None, remote}, size : {None, remote}]

\* truth value of a size in Python: None and 0 are falsy
SizeTruthy(size) == size # None /\ Val(size) # 0

\* a or b
PyOr(a, b) == IF SizeTruthy(a) THEN a ELSE b

\* _needs_download; dest is the local size, None when dest does not exist
_needs_download(remote_info, dest) ==
    IF dest = None THEN TRUE
    ELSE LET size == PyOr(remote_info.metadata_size, remote_info.size)
         IN IF SizeTruthy(size) /\ Val(dest) # Val(size) THEN TRUE
            ELSE FALSE

\* _download_object succeeds when the service answers and has the object
CanDownload(f) == fs.net /\ fs.remote[f] # None

\* _list_objects: the entries of the objects there are, {} taken for none
Listed(names) == SelectSeq(names, LAMBDA f : fs.remote[f] # None)

\* the states sync() can start from
SyncInputs ==
    {[pc |-> "start", net |-> net, local |-> loc, local0 |-> loc,
      remote |-> rem, info |-> inf,
      needs |-> [f \in SyncFiles |-> None], downloaded |-> {}] :
        net \in BOOLEAN,
        loc \in {l \in [SyncFiles -> OptSizes] : l[Other] = None},
        rem \in {r \in [SyncFiles -> OptSizes] : r[Other] = Some(0)},
        inf \in [SyncFiles -> [metadata_size : OptSizes, size : OptSizes]]}

SyncInit ==
    /\ fs \in {x \in SyncInputs : \A f \in SyncFiles : x.info[f] \in InfosOf(x.remote[f])}
    /\ master = IF fs.local[Gpkg] = None THEN 0 ELSE 1
    /\ gdf = [a \in Kinds |-> None]
    /\ sindex = [a \in Kinds |-> None]
    /\ pc = [t \in Threads |-> "idle"]
    /\ args = [t \in Threads |-> None]
    /\ local = [t \in Threads |-> None]
    /\ ret = NoRet
    /\ call = NoCall

\* the effect of _download_object(f) on the sync state x
Downloaded(x, f) ==
    [x EXCEPT !.local[f] = x.remote[f], !.downloaded = @ \cup {f}]

\* "if _needs_download(info, dest): _download_object(...)" on sync state x
CheckAndDownload(x, f, remote_info) ==
    LET need == _needs_download(remote_info, x.local[f])
        y == [x EXCEPT !.needs[f] = Some([remote_info |-> remote_info,
                                          dest |-> x.local[f],
                                          result |-> need])]
    IN IF need THEN Downloaded(y, f) ELSE y

\* sync, step 1: master.gpkg; an exception only prints a warning
SyncMaster ==
    /\ fs.pc = "start"
    /\ LET x == [fs EXCEPT !.pc = "census"]
           items == Listed(<<Gpkg>>)
           remote_info == IF items # <<>> THEN fs.info[items[1]] ELSE EmptyInfo
       IN fs' = IF fs.local[Gpkg] = None
                THEN IF CanDownload(Gpkg) THEN Downloaded(x, Gpkg) ELSE x
                ELSE IF ~fs.net THEN x
                ELSE CheckAndDownload(x, Gpkg, remote_info)
    /\ master' = IF fs'.local[Gpkg] = None THEN 0 ELSE 1
    /\ UNCHANGED <<gdf, sindex, pc, args, local, ret, call>>

\* the loop over the listed census objects
RECURSIVE CensusLoop(_, _)
CensusLoop(x, objs) ==
    IF objs = <<>> THEN x
    ELSE LET name == Head(objs)
         IN IF ~EndsWithParquet(name) THEN CensusLoop(x, Tail(objs))
            ELSE CensusLoop(CheckAndDownload(x, name, x.info[name]), Tail(objs))

\* sync, step 2: the parquet files under the census prefix
SyncCensus ==
    /\ fs.pc = "census"
    /\ LET x == [fs EXCEPT !.pc = "done"]
       IN fs' = IF ~fs.net THEN x ELSE CensusLoop(x, Listed(<<Parquet, Other>>))
    /\ UNCHANGED <<master, gdf, sindex, pc, args, local, ret, call>>

SyncNext == SyncMaster \/ SyncCensus

SyncSpec == SyncInit /\ [][SyncNext]_vars

\* the size the listing gives for f is unknown: neither field carries it
SizeUnknown(remote_info) == remote_info.metadata_size = None /\ remote_info.size = None
KnownSize(remote_info) ==
    IF remote_info.metadata_size # None THEN remote_info.metadata_size
    ELSE remote_info.size

\* C11: _needs_download reports a download is needed when dest does not
\* exist, when the remote size is known and differs from the local size,
\* and always when the remote size is unknown; so once sync() has run
\* against a reachable service, every local file that existed and whose
\* remote size is unknown has been downloaded again
C11_NeedsDownloadUnknownSize ==
    (fs.pc = "done" /\ fs.net) =>
        \A f \in {Gpkg, Parquet} :
            /\ fs.needs[f] # None =>
                   LET c == Val(fs.needs[f])
                   IN c.result =
                          \/ c.dest = None
                          \/ SizeUnknown(c.remote_info)
                          \/ Val(KnownSize(c.remote_info)) # Val(c.dest)
            /\ (/\ fs.local0[f] # None /\ fs.remote[f] # None
                /\ SizeUnknown(fs.info[f]))
               => f \in fs.downloaded

====
